---- MODULE Spec2Model ----
(***************************************************************************)
(* A model of glium_text (src/src/lib.rs): FontTexture::new with the glyph *)
(* packer build_font_image, TextDisplay::new / set_text, and draw.         *)
(*                                                                         *)
(* Numbers.  The packer works on u32 pixel quantities.  Every bound below  *)
(* keeps them far below 2^24, so no u32 operation wraps and every          *)
(* `as f32` conversion is exact.  The normalised metrics are pixel counts  *)
(* divided by the atlas width or height, both powers of two; they are      *)
(* modelled as exact fractions <<numerator, denominator>> in lowest terms, *)
(* which is what f32 computes for such dyadic values.                      *)
(***************************************************************************)
EXTENDS Integers, Sequences, FiniteSets, TLC

(***************************************************************************)
(* Bounds of the model.                                                    *)
(***************************************************************************)
\* largest font_size argument of FontTexture::new
MaxFontSize == 2
\* largest number of characters the face enumerates
MaxGlyphs == 3
\* largest bitmap.width / bitmap.rows of a rendered glyph
MaxBitmapWidth == 4
MaxBitmapRows == 2
\* the width heuristic alone is explored over a wider range
MaxWidthGlyphs == 20
MaxWidthFontSize == 5
\* the text phase
NumChars == 3
MaxTextLen == 2
MaxDraws == 1
MaxQuads == 16385

(***************************************************************************)
(* Program constants.                                                      *)
(***************************************************************************)
\* first_vertex_offset is a u16
U16Modulus == 65536
\* vertex_buffer_data.len() is a usize
UsizeBits == 64

VARIABLES
    pc,                 \* position inside FontTexture::new, or the phase
    library,            \* FT_Library handle: "null", "live" or "released"
    face,               \* FT_Face handle: "null", "live" or "released"
    font_size,          \* argument of FontTexture::new
    characters_list,    \* characters still to be packed
    num_characters,     \* characters_list.len() at the call of build_font_image
    texture_width,
    texture_height,
    cursor_offset,
    rows_to_skip,
    texture_len,        \* texture_data.len()
    characters_infos,   \* Vec<(char, CharacterInfos)>
    result,             \* "none", "Ok", "Err" or "panic"
    failure,            \* what made the call fail, "" when nothing did
    texture_created,    \* a glium Texture2d has been created
    text_display,       \* the TextDisplay, <<>> before TextDisplay::new
    last_text,          \* the text of the last TextDisplay::new / set_text
    draw_calls,         \* draw calls issued on the target surface
    vertex_count,       \* vertex_buffer_data.len() inside the loop of set_text
    quad_indices,       \* the six indices the loop pushed last, <<>> before
    last_op             \* the operation performed last

vars == <<pc, library, face, font_size, characters_list, num_characters,
          texture_width, texture_height, cursor_offset, rows_to_skip,
          texture_len, characters_infos, result, failure, texture_created,
          text_display, last_text, draw_calls, vertex_count, quad_indices,
          last_op>>

atlasVars == <<library, face, font_size, characters_list, num_characters,
               texture_width, texture_height, cursor_offset, rows_to_skip,
               texture_len, characters_infos, result, failure, texture_created>>

loopVars == <<vertex_count, quad_indices>>

textVars == <<text_display, last_text, draw_calls, vertex_count, quad_indices>>

(***************************************************************************)
(* Arithmetic helpers.                                                     *)
(***************************************************************************)
Max(a, b) == IF a >= b THEN a ELSE b

Abs(a) == IF a < 0 THEN -a ELSE a

RECURSIVE Gcd(_, _)
Gcd(a, b) == IF b = 0 THEN a ELSE Gcd(b, a % b)

\* the fraction n/d in lowest terms, d > 0
Frac(n, d) ==
    LET g == Gcd(Abs(n), d)
    IN  IF n = 0 THEN <<0, 1>> ELSE <<n \div g, d \div g>>

\* `x as f32` for an integer x
AsF32(x) == Frac(x, 1)

FAdd(a, b) == Frac(a[1] * b[2] + b[1] * a[2], a[2] * b[2])

FSub(a, b) == Frac(a[1] * b[2] - b[1] * a[2], a[2] * b[2])

\* `a /= d` for a positive integer d
FDiv(a, d) == Frac(a[1], a[2] * d)

FLeq(a, b) == a[1] * b[2] <= b[1] * a[2]

FZero == <<0, 1>>

FOne == <<1, 1>>

RECURSIVE BitOr(_, _)
BitOr(a, b) ==
    IF a = 0 THEN b
    ELSE IF b = 0 THEN a
    ELSE (IF a % 2 = 1 \/ b % 2 = 1 THEN 1 ELSE 0) + 2 * BitOr(a \div 2, b \div 2)

Shr(x, k) == x \div (2 ^ k)

\* assert!(x > 0) of get_nearest_po2
Po2AssertFails(x) == ~(x > 0)

\* get_nearest_po2 after its assertion, with the bit smearing of the code
Po2NoDecrement(x) ==
    LET x1 == BitOr(x, Shr(x, 1))
        x2 == BitOr(x1, Shr(x1, 2))
        x3 == BitOr(x2, Shr(x2, 4))
        x4 == BitOr(x3, Shr(x3, 8))
        x5 == BitOr(x4, Shr(x4, 16))
    IN  x5 + 1

get_nearest_po2(x) ==
    LET x0 == x - 1
        x1 == BitOr(x0, Shr(x0, 1))
        x2 == BitOr(x1, Shr(x1, 2))
        x3 == BitOr(x2, Shr(x2, 4))
        x4 == BitOr(x3, Shr(x3, 8))
        x5 == BitOr(x4, Shr(x4, 16))
    IN  x5 + 1

\* `(v as f32).sqrt() as u32`: the square root, truncated toward zero
SqrtAsU32(v) == CHOOSE r \in 0..v : r * r <= v /\ (r + 1) * (r + 1) > v

\* the argument of get_nearest_po2 that chooses texture_width
WidthEstimate(n, s) == Max(s * 2, SqrtAsU32(n * s * s))

ChooseTextureWidth(n, s) == get_nearest_po2(WidthEstimate(n, s))

(***************************************************************************)
(* The glyph packer: one run of the filter_map closure of build_font_image.*)
(* A glyph is what FreeType hands back for one character:                  *)
(*   loaded  - FT_Load_Glyph returned 0                                    *)
(*   width, rows - bitmap.width, bitmap.rows                               *)
(*   left, top - bitmap_left, bitmap_top                                   *)
(*   advance - advance.x >> 6                                              *)
(* The packer state is the record of the closure's captured variables.     *)
(***************************************************************************)
NeedsWrapOffByOne(x, w, tw) == x + w > tw + 1

\* the carriage-return test
NeedsWrap(x, w, tw) == x + w >= tw

\* assert!(bitmap.width as u32 <= texture_width)
WidthAssertHolds(w, tw) == w <= tw

\* every index of the copy loop is inside its slice
CopyInBounds(c, g, tw, len) ==
    LET start == c[1] + c[2] * tw
        dlen == len - start
    IN  /\ start <= len
        /\ \A y \in 0..(g.rows - 1) :
              /\ y * g.width <= dlen
              /\ y * tw <= dlen
              /\ \A x \in 0..(g.width - 1) :
                    /\ x < dlen - y * g.width
                    /\ x < dlen - y * tw

AdvanceCursorNever(c, g) == c

\* cursor_offset.0 += bitmap.width, inside `if bitmap.rows >= 1`
AdvanceCursor(c, g) == IF g.rows >= 1 THEN <<c[1] + g.width, c[2]>> ELSE c

\* the CharacterInfos of a glyph, in pixels
PixelInfos(g, x_before, y) ==
    [ left_padding     |-> AsF32(g.left),
      right_padding    |-> AsF32(g.advance - g.width - g.left),
      height_over_line |-> AsF32(g.top),
      size             |-> <<AsF32(g.width), AsF32(g.rows)>>,
      coords           |-> <<AsF32(x_before), AsF32(y)>> ]

PackerPanic(st, why) == [st EXCEPT !.panic = why]

PlaceGlyph(st, tw, character, g) ==
    IF ~g.loaded THEN st
    ELSE
    LET wrap == NeedsWrap(st.cursor_offset[1], g.width, tw)
        c1   == IF wrap THEN <<0, st.cursor_offset[2] + st.rows_to_skip>>
                        ELSE st.cursor_offset
        r1   == IF wrap THEN 0 ELSE st.rows_to_skip
        grow == r1 < g.rows
        r2   == IF grow THEN g.rows ELSE r1
        len2 == IF grow THEN st.texture_len + (g.rows - r1) * tw
                        ELSE st.texture_len
        c2   == AdvanceCursor(c1, g)
    IN  IF wrap /\ ~WidthAssertHolds(g.width, tw)
            THEN PackerPanic(st, "assert_width")
        ELSE IF g.rows >= 1 /\ ~CopyInBounds(c1, g, tw, len2)
            THEN PackerPanic(st, "copy_out_of_bounds")
        ELSE IF g.rows >= 1 /\ ~(c2[1] <= tw)
            THEN PackerPanic(st, "debug_assert_cursor")
        ELSE [ cursor_offset    |-> c2,
               rows_to_skip     |-> r2,
               texture_len      |-> len2,
               characters_infos |-> Append(st.characters_infos,
                   <<character, PixelInfos(g, c1[1], c1[2])>>),
               panic            |-> "" ]

\* the packer state before the first glyph
PackerStart ==
    [ cursor_offset |-> <<0, 0>>, rows_to_skip |-> 0, texture_len |-> 0,
      characters_infos |-> <<>>, panic |-> "" ]

\* "adding blank lines at the end until the height of the texture is a power of two"
PaddedLen(len, tw) ==
    LET current_height == len \div tw
        requested_height == get_nearest_po2(current_height)
    IN  len + tw * (requested_height - current_height)

\* "we can divide all the pixels values into (0,1) range"
NormalizeInfos(infos, tw, th) ==
    [ left_padding     |-> FDiv(infos.left_padding, tw),
      right_padding    |-> FDiv(infos.right_padding, tw),
      height_over_line |-> FDiv(infos.height_over_line, th),
      size             |-> <<FDiv(infos.size[1], tw), FDiv(infos.size[2], th)>>,
      coords           |-> <<FDiv(infos.coords[1], tw), FDiv(infos.coords[2], th)>> ]

NormalizeAll(cinfos, tw, th) ==
    [i \in 1..Len(cinfos) |-> <<cinfos[i][1], NormalizeInfos(cinfos[i][2], tw, th)>>]

(***************************************************************************)
(* What FreeType may hand back for one character.  bitmap_left, bitmap_top *)
(* and the advance follow from the bitmap's size here; the packer only     *)
(* copies them into the CharacterInfos.                                    *)
(***************************************************************************)
MakeGlyph(w, r) ==
    [ loaded |-> TRUE, width |-> w, rows |-> r,
      left |-> r % 2, top |-> r, advance |-> w + (r % 2) + 1 ]

FailedGlyph ==
    [ loaded |-> FALSE, width |-> 0, rows |-> 0, left |-> 0, top |-> 0, advance |-> 0 ]

GlyphInputs ==
    { MakeGlyph(w, r) : w \in 0..MaxBitmapWidth, r \in 0..MaxBitmapRows }
        \cup { FailedGlyph }

(***************************************************************************)
(* FontTexture::new, step by step.                                         *)
(***************************************************************************)
Init ==
    /\ pc = "new_library"
    /\ library = "null"
    /\ face = "null"
    /\ font_size \in 1..MaxFontSize
    /\ characters_list = <<>>
    /\ num_characters = 0
    /\ texture_width = 0
    /\ texture_height = 0
    /\ cursor_offset = <<0, 0>>
    /\ rows_to_skip = 0
    /\ texture_len = 0
    /\ characters_infos = <<>>
    /\ result = "none"
    /\ failure = ""
    /\ texture_created = FALSE
    /\ text_display = <<>>
    /\ last_text = <<>>
    /\ draw_calls = 0
    /\ vertex_count = 0
    /\ quad_indices = <<>>
    /\ last_op = "none"

\* `return Err(())`
ReturnErr(why) ==
    /\ result' = "Err"
    /\ failure' = why
    /\ pc' = "returned"

\* a panic unwinds out of FontTexture::new
Abort(why) ==
    /\ result' = "panic"
    /\ failure' = why
    /\ pc' = "aborted"

NewLibrary(ok) ==
    /\ pc = "new_library"
    /\ IF ok
          THEN /\ library' = "live"
               /\ pc' = "read_font"
               /\ UNCHANGED <<result, failure>>
          ELSE /\ ReturnErr("new_library")
               /\ UNCHANGED library
    /\ last_op' = "new_library"
    /\ UNCHANGED <<face, font_size, characters_list, num_characters, texture_width,
                   texture_height, cursor_offset, rows_to_skip, texture_len,
                   characters_infos, texture_created>>
    /\ UNCHANGED textVars

ReadFont(ok) ==
    /\ pc = "read_font"
    /\ IF ok
          THEN /\ pc' = "new_face"
               /\ UNCHANGED <<result, failure>>
          ELSE ReturnErr("read_font")
    /\ last_op' = "read_font"
    /\ UNCHANGED <<library, face, font_size, characters_list, num_characters,
                   texture_width, texture_height, cursor_offset, rows_to_skip,
                   texture_len, characters_infos, texture_created>>
    /\ UNCHANGED textVars

NewFace(ok) ==
    /\ pc = "new_face"
    /\ IF ok
          THEN /\ face' = "live"
               /\ pc' = "enumerate"
               /\ UNCHANGED <<result, failure>>
          ELSE /\ ReturnErr("new_face")
               /\ UNCHANGED face
    /\ last_op' = "new_face"
    /\ UNCHANGED <<library, font_size, characters_list, num_characters, texture_width,
                   texture_height, cursor_offset, rows_to_skip, texture_len,
                   characters_infos, texture_created>>
    /\ UNCHANGED textVars

\* FT_Get_First_Char / FT_Get_Next_Char: n distinct characters, in increasing order
EnumerateChars(n) ==
    /\ pc = "enumerate"
    /\ characters_list' = [i \in 1..n |-> i]
    /\ pc' = "set_pixel_sizes"
    /\ last_op' = "enumerate"
    /\ UNCHANGED <<library, face, font_size, num_characters, texture_width,
                   texture_height, cursor_offset, rows_to_skip, texture_len,
                   characters_infos, result, failure, texture_created>>
    /\ UNCHANGED textVars

\* the head of build_font_image: the pixel size, the width, the cursor
SetPixelSizes(ok) ==
    /\ pc = "set_pixel_sizes"
    /\ IF ~ok
          THEN /\ Abort("set_pixel_sizes")
               /\ UNCHANGED <<num_characters, texture_width, cursor_offset,
                              rows_to_skip, texture_len, characters_infos>>
          ELSE IF Po2AssertFails(WidthEstimate(Len(characters_list), font_size))
          THEN /\ Abort("assert_po2_width")
               /\ UNCHANGED <<num_characters, texture_width, cursor_offset,
                              rows_to_skip, texture_len, characters_infos>>
          ELSE /\ num_characters' = Len(characters_list)
               /\ texture_width' = ChooseTextureWidth(Len(characters_list), font_size)
               /\ cursor_offset' = PackerStart.cursor_offset
               /\ rows_to_skip' = PackerStart.rows_to_skip
               /\ texture_len' = PackerStart.texture_len
               /\ characters_infos' = PackerStart.characters_infos
               /\ pc' = "glyph_loop"
               /\ UNCHANGED <<result, failure>>
    /\ last_op' = "set_pixel_sizes"
    /\ UNCHANGED <<library, face, font_size, characters_list, texture_height,
                   texture_created>>
    /\ UNCHANGED textVars

\* the captured variables of the closure, as a packer state
Packer ==
    [ cursor_offset |-> cursor_offset, rows_to_skip |-> rows_to_skip,
      texture_len |-> texture_len, characters_infos |-> characters_infos,
      panic |-> "" ]

\* one character through the filter_map closure
LoadGlyph(g) ==
    /\ pc = "glyph_loop"
    /\ characters_list # <<>>
    /\ LET st == PlaceGlyph(Packer, texture_width, Head(characters_list), g)
       IN  IF st.panic # ""
              THEN /\ Abort(st.panic)
                   /\ UNCHANGED <<characters_list, cursor_offset, rows_to_skip,
                                  texture_len, characters_infos>>
              ELSE /\ characters_list' = Tail(characters_list)
                   /\ cursor_offset' = st.cursor_offset
                   /\ rows_to_skip' = st.rows_to_skip
                   /\ texture_len' = st.texture_len
                   /\ characters_infos' = st.characters_infos
                   /\ UNCHANGED <<pc, result, failure>>
    /\ last_op' = "load_glyph"
    /\ UNCHANGED <<library, face, font_size, num_characters, texture_width,
                   texture_height, texture_created>>
    /\ UNCHANGED textVars

\* the blank lines that make the height a power of two
PadHeight ==
    /\ pc = "glyph_loop"
    /\ characters_list = <<>>
    /\ IF Po2AssertFails(texture_len \div texture_width)
          THEN /\ Abort("assert_po2_height")
               /\ UNCHANGED texture_len
          ELSE /\ texture_len' = PaddedLen(texture_len, texture_width)
               /\ pc' = "normalize"
               /\ UNCHANGED <<result, failure>>
    /\ last_op' = "pad_height"
    /\ UNCHANGED <<library, face, font_size, characters_list, num_characters,
                   texture_width, texture_height, cursor_offset, rows_to_skip,
                   characters_infos, texture_created>>
    /\ UNCHANGED textVars

\* the final dimensions and the division of every metric by them
Normalize ==
    /\ pc = "normalize"
    /\ IF texture_len % texture_width # 0
          THEN /\ Abort("assert_len_multiple")
               /\ UNCHANGED <<texture_height, characters_infos>>
          ELSE /\ texture_height' = texture_len \div texture_width
               /\ characters_infos' =
                      NormalizeAll(characters_infos, texture_width,
                                   texture_len \div texture_width)
               /\ pc' = "upload"
               /\ UNCHANGED <<result, failure>>
    /\ last_op' = "normalize"
    /\ UNCHANGED <<library, face, font_size, characters_list, num_characters,
                   texture_width, cursor_offset, rows_to_skip, texture_len,
                   texture_created>>
    /\ UNCHANGED textVars

\* Texture2d::new and Ok(FontTexture { .. })
UploadTexture ==
    /\ pc = "upload"
    /\ texture_created' = TRUE
    /\ result' = "Ok"
    /\ pc' = "returned"
    /\ last_op' = "upload"
    /\ UNCHANGED <<failure, library, face, font_size, characters_list,
                   num_characters, texture_width, texture_height, cursor_offset,
                   rows_to_skip, texture_len, characters_infos>>
    /\ UNCHANGED textVars

Next ==
    \/ \E ok \in BOOLEAN : NewLibrary(ok)
    \/ \E ok \in BOOLEAN : ReadFont(ok)
    \/ \E ok \in BOOLEAN : NewFace(ok)
    \/ \E n \in 0..MaxGlyphs : EnumerateChars(n)
    \/ \E ok \in BOOLEAN : SetPixelSizes(ok)
    \/ \E g \in GlyphInputs : LoadGlyph(g)
    \/ PadHeight
    \/ Normalize
    \/ UploadTexture

Spec == Init /\ [][Next]_vars

(***************************************************************************)
(* build_font_image as one function: the fold of PlaceGlyph over the       *)
(* characters, then the padding and the normalisation.                     *)
(***************************************************************************)
RECURSIVE PackAll(_, _, _, _)
PackAll(st, tw, chars, glyphOf) ==
    IF chars = <<>> \/ st.panic # "" THEN st
    ELSE PackAll(PlaceGlyph(st, tw, Head(chars), glyphOf[Head(chars)]),
                 tw, Tail(chars), glyphOf)

BuildFontImage(chars, glyphOf, s) ==
    LET tw == ChooseTextureWidth(Len(chars), s)
        st == PackAll(PackerStart, tw, chars, glyphOf)
        len == IF st.panic = "" /\ ~Po2AssertFails(st.texture_len \div tw)
                  THEN PaddedLen(st.texture_len, tw) ELSE st.texture_len
        th == len \div tw
    IN  [ panic            |-> IF st.panic # "" THEN st.panic
                               ELSE IF Po2AssertFails(st.texture_len \div tw)
                                    THEN "assert_po2_height" ELSE "",
          texture_width    |-> tw,
          texture_height   |-> th,
          texture_len      |-> len,
          cursor_offset    |-> st.cursor_offset,
          rows_to_skip     |-> st.rows_to_skip,
          characters_infos |-> IF th > 0
                                  THEN NormalizeAll(st.characters_infos, tw, th)
                                  ELSE st.characters_infos ]

(***************************************************************************)
(* The text phase.  Characters are 1..NumChars.  Character 2 is a          *)
(* combining mark that NFC composes with the base character 1 into the     *)
(* precomposed character 3; no other pair composes.                        *)
(***************************************************************************)
Chars == 1..NumChars

Compose(a, b) == IF a = 1 /\ b = 2 THEN 3 ELSE 0

\* text.nfc_chars()
RECURSIVE Nfc(_)
Nfc(t) ==
    IF Len(t) < 2 THEN t
    ELSE IF Compose(t[1], t[2]) # 0
         THEN <<Compose(t[1], t[2])>> \o Nfc(SubSeq(t, 3, Len(t)))
         ELSE <<t[1]>> \o Nfc(Tail(t))

\* the glyphs of the faces the text phase builds its atlases from
FaceGlyph(c) ==
    IF c % 4 = 0
    THEN [ loaded |-> TRUE, width |-> 0, rows |-> 0, left |-> 0, top |-> 0,
           advance |-> 1 ]
    ELSE [ loaded |-> TRUE,
           width   |-> 1 + (c % 2),
           rows    |-> 1 + ((c \div 2) % 2),
           left    |-> c % 3,
           top     |-> 1,
           advance |-> IF c = 2 THEN 0 ELSE 2 + c ]

SortedSeq(S) ==
    CHOOSE q \in [1..Cardinality(S) -> S] :
        \A i, j \in 1..Cardinality(S) : i < j => q[i] < q[j]

None == <<>>

Some(v) == <<v>>

\* the struct literal of TextDisplay::new
EmptyDisplay ==
    [ is_empty |-> TRUE, total_text_width |-> FZero,
      vertex_buffer |-> None, index_buffer |-> None ]

ResetDisplayKeepsWidth(self) ==
    [self EXCEPT !.is_empty = TRUE, !.vertex_buffer = None, !.index_buffer = None]

\* the first four statements of set_text
ResetDisplay(self) ==
    [self EXCEPT !.is_empty = TRUE, !.total_text_width = FZero,
                 !.vertex_buffer = None, !.index_buffer = None]

\* character_infos.iter().find(..): the index of the first match, 0 for None
FindInfos(cinfos, character) ==
    IF \E i \in 1..Len(cinfos) : cinfos[i][1] = character
    THEN CHOOSE i \in 1..Len(cinfos) :
            /\ cinfos[i][1] = character
            /\ \A j \in 1..(i - 1) : cinfos[j][1] # character
    ELSE 0

U16(x) == x % U16Modulus

\* the six indices of a quad
QuadIndices(len) ==
    LET first_vertex_offset == U16(len)
    IN  << first_vertex_offset,
           U16(first_vertex_offset + 1),
           U16(first_vertex_offset + 2),
           U16(first_vertex_offset + 2),
           U16(first_vertex_offset + 1),
           U16(first_vertex_offset + 3) >>

Vertex(px, py, tx, ty) == [ position |-> <<px, py>>, tex_coords |-> <<tx, ty>> ]

\* the four vertices of a quad
QuadVertices(infos, left_coord) ==
    LET right_coord  == FAdd(left_coord, infos.size[1])
        top_coord    == infos.height_over_line
        bottom_coord == FSub(infos.height_over_line, infos.size[2])
    IN  << Vertex(left_coord, top_coord, infos.coords[1], infos.coords[2]),
           Vertex(right_coord, top_coord,
                  FAdd(infos.coords[1], infos.size[1]), infos.coords[2]),
           Vertex(left_coord, bottom_coord,
                  infos.coords[1], FAdd(infos.coords[2], infos.size[2])),
           Vertex(right_coord, bottom_coord,
                  FAdd(infos.coords[1], infos.size[1]),
                  FAdd(infos.coords[2], infos.size[2])) >>

PenAfterWithoutPadding(right_coord, infos) == right_coord

\* "going to next char"
PenAfter(right_coord, infos) == FAdd(right_coord, infos.right_padding)

\* the loop body for a character found in the atlas
PushQuad(acc, infos) ==
    LET left_coord == FAdd(acc.self.total_text_width, infos.left_padding)
        right_coord == FAdd(left_coord, infos.size[1])
    IN  [ self |-> [acc.self EXCEPT !.is_empty = FALSE,
                                    !.total_text_width = PenAfter(right_coord, infos)],
          vertex_buffer_data |-> acc.vertex_buffer_data \o QuadVertices(infos, left_coord),
          index_buffer_data |-> acc.index_buffer_data
                                    \o QuadIndices(Len(acc.vertex_buffer_data)) ]

\* the loop over text.nfc_chars()
RECURSIVE LayoutChars(_, _, _)
LayoutChars(acc, cinfos, chars) ==
    IF chars = <<>> THEN acc
    ELSE LET i == FindInfos(cinfos, Head(chars))
         IN  IF i = 0
                THEN LayoutChars(acc, cinfos, Tail(chars))
                ELSE LayoutChars(PushQuad(acc, cinfos[i][2]), cinfos, Tail(chars))

\* some bit of the usize x is 0, so that !x is not 0
RECURSIVE HasZeroBit(_, _)
HasZeroBit(x, bits) ==
    IF bits = 0 THEN FALSE
    ELSE x % 2 = 0 \/ HasZeroBit(x \div 2, bits - 1)

\* `!vertex_buffer_data.len() != 0`
BuffersBuilt(len) == HasZeroBit(len, UsizeBits)

SetText(self, cinfos, text) ==
    LET reset == ResetDisplay(self)
    IN  IF Len(text) = 0 THEN reset
        ELSE LET acc == LayoutChars([ self |-> reset, vertex_buffer_data |-> <<>>,
                                      index_buffer_data |-> <<>> ],
                                    cinfos, Nfc(text))
             IN  IF BuffersBuilt(Len(acc.vertex_buffer_data))
                    THEN [acc.self EXCEPT
                            !.vertex_buffer = Some(acc.vertex_buffer_data),
                            !.index_buffer = Some(acc.index_buffer_data)]
                    ELSE acc.self

DrawReturnsEarlyIgnoringIsEmpty(td) ==
    td.vertex_buffer = None \/ td.index_buffer = None

\* "returning if nothing to draw"
DrawReturnsEarly(td) ==
    td.is_empty \/ td.vertex_buffer = None \/ td.index_buffer = None

Texts == UNION { [1..n -> Chars] : n \in 0..MaxTextLen }

\* a FontTexture has been built and no TextDisplay yet
InitText ==
    /\ font_size \in 1..MaxFontSize
    /\ \E S \in SUBSET Chars :
          LET chars == SortedSeq(S)
              img == BuildFontImage(chars, [c \in Chars |-> FaceGlyph(c)], font_size)
          IN  /\ img.panic = ""
              /\ num_characters = Len(chars)
              /\ texture_width = img.texture_width
              /\ texture_height = img.texture_height
              /\ texture_len = img.texture_len
              /\ cursor_offset = img.cursor_offset
              /\ rows_to_skip = img.rows_to_skip
              /\ characters_infos = img.characters_infos
    /\ pc = "returned"
    /\ library = "live"
    /\ face = "live"
    /\ characters_list = <<>>
    /\ result = "Ok"
    /\ failure = ""
    /\ texture_created = TRUE
    /\ text_display = None
    /\ last_text = <<>>
    /\ draw_calls = 0
    /\ vertex_count = 0
    /\ quad_indices = <<>>
    /\ last_op = "upload"

TextDisplayNew(text) ==
    /\ result = "Ok"
    /\ text_display = None
    /\ text_display' = Some(SetText(EmptyDisplay, characters_infos, text))
    /\ last_text' = text
    /\ last_op' = "new"
    /\ UNCHANGED <<pc, draw_calls>>
    /\ UNCHANGED loopVars
    /\ UNCHANGED atlasVars

SetTextCall(text) ==
    /\ text_display # None
    /\ text_display' = Some(SetText(text_display[1], characters_infos, text))
    /\ last_text' = text
    /\ last_op' = "set_text"
    /\ UNCHANGED <<pc, draw_calls>>
    /\ UNCHANGED loopVars
    /\ UNCHANGED atlasVars

Draw ==
    /\ text_display # None
    /\ IF DrawReturnsEarly(text_display[1])
          THEN UNCHANGED draw_calls
          ELSE /\ draw_calls < MaxDraws
               /\ draw_calls' = draw_calls + 1
    /\ last_op' = "draw"
    /\ UNCHANGED <<pc, text_display, last_text>>
    /\ UNCHANGED loopVars
    /\ UNCHANGED atlasVars

NextText ==
    \/ \E text \in Texts : TextDisplayNew(text)
    \/ \E text \in Texts : SetTextCall(text)
    \/ Draw

SpecText == InitText /\ [][NextText]_vars

(***************************************************************************)
(* The loop of set_text, one character of text.nfc_chars() per step, for   *)
(* texts far longer than the ones SetText is applied to above.  Only the   *)
(* length of vertex_buffer_data and the six indices pushed by the current  *)
(* iteration are kept; the indices are computed by QuadIndices as in       *)
(* PushQuad.  A character that is not in the atlas is skipped.             *)
(***************************************************************************)
LoopChar(c) ==
    /\ result = "Ok"
    /\ vertex_count < 4 * MaxQuads
    /\ IF FindInfos(characters_infos, c) = 0
          THEN /\ last_op' = "skip"
               /\ UNCHANGED loopVars
          ELSE /\ quad_indices' = QuadIndices(vertex_count)
               /\ vertex_count' = vertex_count + 4
               /\ last_op' = "push"
    /\ UNCHANGED <<pc, text_display, last_text, draw_calls>>
    /\ UNCHANGED atlasVars

NextIndex == \E c \in Chars : LoopChar(c)

SpecIndex == InitText /\ [][NextIndex]_vars

(***************************************************************************)
(* The width heuristic alone, over a wider range of glyph counts and sizes.*)
(***************************************************************************)
InitWidth ==
    /\ pc = "set_pixel_sizes"
    /\ library = "live"
    /\ face = "live"
    /\ font_size \in 1..MaxWidthFontSize
    /\ \E n \in 1..MaxWidthGlyphs : characters_list = [i \in 1..n |-> i]
    /\ num_characters = 0
    /\ texture_width = 0
    /\ texture_height = 0
    /\ cursor_offset = <<0, 0>>
    /\ rows_to_skip = 0
    /\ texture_len = 0
    /\ characters_infos = <<>>
    /\ result = "none"
    /\ failure = ""
    /\ texture_created = FALSE
    /\ text_display = <<>>
    /\ last_text = <<>>
    /\ draw_calls = 0
    /\ vertex_count = 0
    /\ quad_indices = <<>>
    /\ last_op = "enumerate"

NextWidth == \E ok \in BOOLEAN : SetPixelSizes(ok)

SpecWidth == InitWidth /\ [][NextWidth]_vars

(***************************************************************************)
(* Vocabulary of the properties.                                           *)
(***************************************************************************)
IsPowerOfTwo(x) == \E k \in 0..30 : x = 2 ^ k

Min(a, b) == IF a <= b THEN a ELSE b

\* FontTexture::new is over, by return or by panic
CallOver == pc \in {"returned", "aborted"}

\* characters_infos still holds pixel values
InPixels == pc \in {"glyph_loop", "normalize", "aborted"}

\* the pixel rectangle of an entry of characters_infos, while InPixels
PixelRect(e) ==
    [ x |-> e[2].coords[1][1], y |-> e[2].coords[2][1],
      w |-> e[2].size[1][1],   h |-> e[2].size[2][1] ]

\* the half-open rectangles a and b share a pixel
RectsOverlap(a, b) ==
    /\ Max(a.x, b.x) < Min(a.x + a.w, b.x + b.w)
    /\ Max(a.y, b.y) < Min(a.y + a.h, b.y + b.h)

InUnit(f) == FLeq(FZero, f) /\ FLeq(f, FOne)

\* the characters of `chars` that the atlas holds, in order
RECURSIVE Present(_, _)
Present(cinfos, chars) ==
    IF chars = <<>> THEN <<>>
    ELSE IF \E i \in 1..Len(cinfos) : cinfos[i][1] = Head(chars)
         THEN <<Head(chars)>> \o Present(cinfos, Tail(chars))
         ELSE Present(cinfos, Tail(chars))

\* the metrics the atlas holds for a character it has
InfosOf(cinfos, character) ==
    (CHOOSE e \in { cinfos[i] : i \in 1..Len(cinfos) } : e[1] = character)[2]

\* left_padding + size.width + right_padding, summed in order
RECURSIVE SumAdvance(_, _)
SumAdvance(cinfos, chars) ==
    IF chars = <<>> THEN FZero
    ELSE LET infos == InfosOf(cinfos, chars[Len(chars)])
         IN  FAdd(SumAdvance(cinfos, SubSeq(chars, 1, Len(chars) - 1)),
                  FAdd(FAdd(infos.left_padding, infos.size[1]), infos.right_padding))

Contents(buffer) == IF buffer = None THEN <<>> ELSE buffer[1]

(***************************************************************************)
(* C1.  With at least one enumerated glyph and an accepted pixel size,     *)
(* atlas construction never panics, whatever the glyph bitmaps are, and    *)
(* the texture width and height it returns are powers of two.              *)
(* The code violates it: a face whose glyphs all have zero rows reaches    *)
(* get_nearest_po2(0), and a glyph wider than the texture fails the width  *)
(* assertion.                                                              *)
(***************************************************************************)
C1_ConstructionSucceeds ==
    (num_characters >= 1 /\ failure # "set_pixel_sizes") =>
        /\ result # "panic"
        /\ result = "Ok" => IsPowerOfTwo(texture_width) /\ IsPowerOfTwo(texture_height)

(***************************************************************************)
(* C3.  While the metrics are in pixels, no two distinct recorded glyphs   *)
(* have overlapping rectangles [x, x+width) x [y, y+height).               *)
(***************************************************************************)
C3_NoOverlap ==
    InPixels =>
        \A i, j \in 1..Len(characters_infos) :
            i < j => ~RectsOverlap(PixelRect(characters_infos[i]),
                                   PixelRect(characters_infos[j]))

\* three glyphs of positive area, two side by side and the third on a new shelf
C3_Witness ==
    /\ pc = "normalize"
    /\ Len(characters_infos) = 3
    /\ \A i \in 1..3 : PixelRect(characters_infos[i]).w > 0
                       /\ PixelRect(characters_infos[i]).h > 0
    /\ PixelRect(characters_infos[2]).y = PixelRect(characters_infos[1]).y
    /\ PixelRect(characters_infos[2]).x > 0
    /\ PixelRect(characters_infos[3]).y > 0

(***************************************************************************)
(* C4.  Every recorded glyph lies inside the atlas: in pixels x >= 0,      *)
(* y >= 0, x + width <= texture_width and y + height <= the height of the  *)
(* buffer (the final height once padded); no copy leaves the buffer; and   *)
(* after normalisation coords, size and coords + size are in [0,1]x[0,1].  *)
(***************************************************************************)
C4_InsideAtlas ==
    /\ failure # "copy_out_of_bounds"
    /\ InPixels =>
          \A i \in 1..Len(characters_infos) :
              LET r == PixelRect(characters_infos[i])
              IN  /\ r.x >= 0 /\ r.y >= 0
                  /\ r.x + r.w <= texture_width
                  /\ r.y + r.h <= texture_len \div texture_width
    /\ pc \in {"upload", "returned"} =>
          \A i \in 1..Len(characters_infos) :
              LET infos == characters_infos[i][2]
              IN  /\ InUnit(infos.coords[1]) /\ InUnit(infos.coords[2])
                  /\ InUnit(infos.size[1]) /\ InUnit(infos.size[2])
                  /\ InUnit(FAdd(infos.coords[1], infos.size[1]))
                  /\ InUnit(FAdd(infos.coords[2], infos.size[2]))

\* a returned atlas taller than wide, with a glyph ending at its right edge
\* and a glyph on a lower shelf
C4_Witness ==
    /\ result = "Ok"
    /\ texture_height > texture_width
    /\ \E i \in 1..Len(characters_infos) :
          FAdd(characters_infos[i][2].coords[1], characters_infos[i][2].size[1]) = FOne
    /\ \E i \in 1..Len(characters_infos) :
          /\ characters_infos[i][2].coords[2] # FZero
          /\ characters_infos[i][2].size[2] # FZero

(***************************************************************************)
(* C8.  Every failure of FontTexture::new (library creation, reading the   *)
(* font, parsing the face, the pixel size) is returned as Err with no      *)
(* texture created; none panics.                                           *)
(* The code violates it: a rejected pixel size is a panic!().              *)
(***************************************************************************)
C8_FailuresAreErr ==
    failure \in {"new_library", "read_font", "new_face", "set_pixel_sizes"} =>
        result = "Err" /\ ~texture_created

(***************************************************************************)
(* C9.  When FontTexture::new is over, on every exit path, the library and *)
(* the face handles it acquired have been released.                        *)
(* The code violates it: no path calls FT_Done_Face or FT_Done_Library.    *)
(***************************************************************************)
C9_HandlesReleased ==
    CallOver => library # "live" /\ face # "live"

(***************************************************************************)
(* C2.  After TextDisplay::new or set_text, if the last text placed no     *)
(* glyph, then is_empty is true and both buffers are None.                 *)
(* The code violates it: `!vertex_buffer_data.len() != 0` holds for every  *)
(* length, so a non-empty text without any glyph of the atlas gets two     *)
(* (empty) buffers.                                                        *)
(***************************************************************************)
C2_EmptyHasNoBuffers ==
    (text_display # None /\ Present(characters_infos, Nfc(last_text)) = <<>>) =>
        /\ text_display[1].is_empty
        /\ text_display[1].vertex_buffer = None
        /\ text_display[1].index_buffer = None

(***************************************************************************)
(* C5, as stated.  total_text_width is the sum, in text order over the     *)
(* characters of the text that the atlas holds, of                         *)
(* left_padding + size.width + right_padding.                              *)
(* The code sums over text.nfc_chars(): a base character followed by a     *)
(* combining mark is looked up as the precomposed character.               *)
(***************************************************************************)
C5_WidthOverTextChars ==
    text_display # None =>
        text_display[1].total_text_width =
            SumAdvance(characters_infos, Present(characters_infos, last_text))

(***************************************************************************)
(* C5, amended.  total_text_width is the sum, in order over the characters *)
(* of the NFC form of the text that the atlas holds, of                    *)
(* left_padding + size.width + right_padding; and the characters the atlas *)
(* lacks change neither the pen position nor the vertices and indices: the *)
(* layout is the layout of the held characters alone.                      *)
(***************************************************************************)
C5_WidthOverNfcChars ==
    text_display # None =>
        LET held == Present(characters_infos, Nfc(last_text))
            alone == LayoutChars([ self |-> EmptyDisplay, vertex_buffer_data |-> <<>>,
                                   index_buffer_data |-> <<>> ],
                                 characters_infos, held)
        IN  /\ text_display[1].total_text_width = SumAdvance(characters_infos, held)
            /\ text_display[1].total_text_width = alone.self.total_text_width
            /\ Contents(text_display[1].vertex_buffer) = alone.vertex_buffer_data
            /\ Contents(text_display[1].index_buffer) = alone.index_buffer_data

\* set_text has laid out the two characters of a text as two quads
C5_Witness ==
    /\ text_display # None
    /\ last_op = "set_text"
    /\ Len(last_text) = 2
    /\ Len(Present(characters_infos, Nfc(last_text))) = 2
    /\ text_display[1].total_text_width # FZero
    /\ Len(Contents(text_display[1].vertex_buffer)) = 8

(***************************************************************************)
(* C6.  After any sequence of set_text calls the TextDisplay (is_empty,    *)
(* total_text_width, both buffers) is the one TextDisplay::new builds from *)
(* the atlas and the last text.                                            *)
(***************************************************************************)
C6_StateIsFreshBuild ==
    text_display # None =>
        text_display[1] = SetText(EmptyDisplay, characters_infos, last_text)

\* a text that was drawn has been replaced, by set_text, by one without glyphs
C6_Witness ==
    /\ text_display # None
    /\ last_op = "set_text"
    /\ draw_calls >= 1
    /\ text_display[1].is_empty
    /\ text_display[1].total_text_width = FZero

(***************************************************************************)
(* C7.  draw issues no draw call when is_empty holds or a buffer is None,  *)
(* and exactly one otherwise; when the last text placed no glyph, draw     *)
(* issues none.                                                            *)
(***************************************************************************)
C7_DrawCalls ==
    [][ (text_display # None /\ last_op' = "draw") =>
            /\ draw_calls' = draw_calls +
                   (IF \/ text_display[1].is_empty
                       \/ text_display[1].vertex_buffer = None
                       \/ text_display[1].index_buffer = None
                    THEN 0 ELSE 1)
            /\ Present(characters_infos, Nfc(last_text)) = <<>> =>
                   draw_calls' = draw_calls ]_vars

\* after a real draw call, draw on a display whose new text has no glyph
C7_Witness ==
    /\ text_display # None
    /\ last_op = "draw"
    /\ draw_calls = 1
    /\ last_text # <<>>
    /\ Present(characters_infos, Nfc(last_text)) = <<>>
    /\ text_display[1].vertex_buffer # None

(***************************************************************************)
(* C10, as stated.  The atlas width W is the smallest power of two with    *)
(* W >= 2*s and W*W >= n*s*s.                                              *)
(* The code truncates the square root: n = 5, s = 1 gives W = 2.           *)
(***************************************************************************)
SmallPowersOfTwo == { 2 ^ k : k \in 0..14 }

C10_WidthCoversArea ==
    pc = "glyph_loop" =>
        LET W == texture_width
            s == font_size
            v == num_characters * font_size * font_size
        IN  /\ W \in SmallPowersOfTwo
            /\ W >= 2 * s
            /\ W * W >= v
            /\ \A P \in SmallPowersOfTwo : (P >= 2 * s /\ P * P >= v) => W <= P

(***************************************************************************)
(* C10, amended.  While n*s*s is below 2^24 the atlas width W is the       *)
(* smallest power of two with W >= 2*s and W >= r, where r is the square   *)
(* root of n*s*s rounded down (r*r <= n*s*s < (r+1)*(r+1)).                *)
(***************************************************************************)
C10_WidthCoversFloorSqrt ==
    pc = "glyph_loop" =>
        LET W == texture_width
            s == font_size
            v == num_characters * font_size * font_size
        IN  \E r \in 0..v :
                /\ r * r <= v /\ v < (r + 1) * (r + 1)
                /\ W \in SmallPowersOfTwo
                /\ W >= 2 * s
                /\ W >= r
                /\ \A P \in SmallPowersOfTwo : (P >= 2 * s /\ P >= r) => W <= P

\* the square root decides the width, and the width squared is below n*s*s
C10_Witness ==
    /\ pc = "glyph_loop"
    /\ texture_width > 2 * font_size
    /\ texture_width * texture_width < num_characters * font_size * font_size

(***************************************************************************)
(* C11.  For each glyph the packer records, it wraps to a new shelf        *)
(* (x = 0, y += rows_to_skip, rows_to_skip = 0) exactly when               *)
(* x + glyph.width > texture_width; otherwise, also when the glyph ends    *)
(* exactly at the right edge, the glyph is placed at the current cursor;   *)
(* and after a bitmap has been copied the cursor is at x + glyph.width.    *)
(* (A bitmap without rows is not copied and leaves the cursor where it is; *)
(* the advance is stated for the bitmaps that are copied.)                 *)
(* The code violates it: it wraps when x + glyph.width >= texture_width,   *)
(* so a glyph that would end exactly at the right edge goes to a new shelf.*)
(***************************************************************************)
C11_WrapsOnlyWhenTooWide ==
    [][ (pc = "glyph_loop" /\ Len(characters_infos') = Len(characters_infos) + 1) =>
            LET r == PixelRect(characters_infos'[Len(characters_infos')])
                x == cursor_offset[1]
                y == cursor_offset[2]
            IN  /\ IF x + r.w > texture_width
                      THEN /\ r.x = 0
                           /\ r.y = y + rows_to_skip
                           /\ rows_to_skip' = r.h
                      ELSE /\ r.x = x
                           /\ r.y = y
                           /\ rows_to_skip' = Max(rows_to_skip, r.h)
                /\ r.h >= 1 => cursor_offset' = <<r.x + r.w, r.y>> ]_vars

(***************************************************************************)
(* C12.  The k-th placed glyph (0-based) of a text contributes the four    *)
(* vertices 4k..4k+3 and the six indices                                   *)
(* (4k, 4k+1, 4k+2, 4k+2, 4k+1, 4k+3), so every index of a quad refers to  *)
(* a vertex of that quad, for any number of placed glyphs, also when 4k    *)
(* exceeds the range of the 16-bit index type.                             *)
(* The code violates it: first_vertex_offset is the buffer length cast to  *)
(* u16, so the glyph with k = 16384 gets the indices of the first quad.    *)
(***************************************************************************)
C12_IndicesOfOwnQuad ==
    quad_indices # <<>> =>
        LET k == vertex_count \div 4 - 1
        IN  quad_indices = << 4 * k, 4 * k + 1, 4 * k + 2,
                              4 * k + 2, 4 * k + 1, 4 * k + 3 >>

====
